---- MODULE Spec2Model ----
(***************************************************************************)
(* A model of the galaxyEngine2D core: the Application driver             *)
(* (core/coreloop.go), the pool initialiser (core/initializer.go), the    *)
(* Physics2DSystem (ecs/system/physics2D.go) and Transform2D.             *)
(*                                                                         *)
(* Threads: the caller of Start (render loop), the goroutine spawned by   *)
(* Start (runWorkerLoop, the "physical thread"), the executor's workers   *)
(* and user threads that submit requests, flip IsActive, Kill and Wait.   *)
(***************************************************************************)
EXTENDS Integers, Sequences, FiniteSets, TLC

\* ----------------------------------------------------------------- bounds
\* Total number of register/unregister requests submitted in one behaviour.
MaxRequests == 3
\* Capacity of registerChannel (InstantiateChannelSize is 256 in the source;
\* scaled down so that a full queue is reachable).
InstantiateChannelSize == 2
\* Capacity of unregisterChannel (DeconstructionChannelSize, 256 in the source).
DeconstructionChannelSize == 2

\* The game objects user code constructs.
Objs == {"o1", "o2"}

\* The only label the default register/unregister helpers use.
Label_Default == "default"

\* Names of the systems kept in the registry.
NamePhysics2DSystem == "sys_Physics2D"
NameCollision2Dsystem == "sys_Collision2D"
SysNames == {NamePhysics2DSystem, NameCollision2Dsystem}

VARIABLES
    \* --- object pool (core package globals)
    activePool,         \* map[label]objPool: label -> set of objects
    inactivePool,       \* map[label]objPool
    IsActive,           \* GameObject2D.IsActive, per object
    registerChannel,    \* Application.registerChannel (buffered)
    unregisterChannel,  \* Application.unregisterChannel (buffered)
    submitted,          \* number of requests submitted so far (bounded by MaxRequests)
    mutexList,          \* mutexList[Mutex_ActivePool]: [readers, writer]
    inputBuffer,        \* inputBuffer[KeyPress], [KeyRelease]: sets of keys
    \* --- systems
    systemPriorityList, \* systems in ascending priority
    enabled,            \* SystemBase enabled flag, per system
    \* --- the physical thread (runWorkerLoop / doPhysicalUpdate)
    wpc,                \* its position
    sysIdx,             \* index of the range loop over systemPriorityList
    rangeSeen,          \* <<label, obj>> entries the current map range has produced
    memObj,             \* the object whose MemXY is in progress
    tick,               \* history of the current physical tick
    \* --- Transform2D of each object
    X, Y, prevX, prevY,
    \* --- Physics2DSystem and the executor
    obj2data,           \* Physics2DSystem.obj2data: the subscribed objects
    loopvar,            \* the build's range-variable semantics: one variable
                        \* per loop ("shared") or one per iteration
    trav,               \* one rigid body's speed list and execute's loop over it
    body,               \* that body's gravity, collider and speeds, and
                        \* execute's position after the loop
    item,               \* the range variable of Execute's loop, captured by the tasks
    taskQueue,          \* tasks submitted to the executor and not yet taken
    worker,             \* the executor's worker: [pc, obj]
    \* --- application lifecycle
    casList,            \* casList[Cas_CoreController]
    npc,                \* NewApplication: each caller's position
    instances,          \* number of Applications NewApplication has returned
    parallelism,        \* Application.parallelism
    spc,                \* a second caller of Start: its position
    status,             \* Application.status
    running,            \* Application.running
    sigKill,            \* Application.sigKill: [msgs, closed]
    wg,                 \* Application.wg: the WaitGroup counter
    mpc,                \* position of the thread that called Start
    kpc,                \* position of the thread calling Kill
    waitpc,             \* position of the thread calling Wait
    crashed,            \* a panic has aborted the process
    life,               \* history of the lifecycle
    \* --- the render loop (doRender)
    rpc,                \* position inside doRender
    renderSortList,     \* the draw list
    renderSeen,         \* entries the pool walk has produced
    spriteZ,            \* Sprite.Z, per object
    renderLog           \* objects whose OnRender ran in the current render tick

poolVars == <<activePool, inactivePool, IsActive, registerChannel,
              unregisterChannel, submitted, mutexList, inputBuffer>>
sysVars == <<systemPriorityList, enabled>>
workVars == <<wpc, sysIdx, rangeSeen, memObj, tick>>
tfVars == <<X, Y, prevX, prevY>>
execVars == <<obj2data, loopvar, trav, body, item, taskQueue, worker>>
lifeVars == <<casList, status, running, sigKill, wg, mpc, kpc, waitpc, crashed, life,
              npc, instances, parallelism, spc>>
renderVars == <<rpc, renderSortList, renderSeen, spriteZ, renderLog>>
vars == <<poolVars, sysVars, workVars, tfVars, execVars, lifeVars, renderVars>>

\* The threads that may call NewApplication.
Callers == {"c1", "c2"}

\* ------------------------------------------------------------ helpers
Last(seq) == seq[Len(seq)]

\* The <<label, object>> entries of a pool map.
PoolEntries(pool) == UNION {{<<l, o>> : o \in pool[l]} : l \in DOMAIN pool}
PoolObjs(pool) == UNION {pool[l] : l \in DOMAIN pool}
PoolSize(pool) == Cardinality(PoolEntries(pool))

Keys == {"KeyW"}
KeyPress == "KeyPress"
KeyHold == "KeyHold"
KeyRelease == "KeyRelease"

\* ------------------------------------------------- core/initializer.go
\* objPoolInit: a fresh map holding one empty bucket, Label_Default.
objPoolInit == [l \in {Label_Default} |-> {}]

\* GlobalInitializer: the empty input buffer.
InputBufferInit == [k \in {KeyPress, KeyHold, KeyRelease} |-> {}]

\* sync.RWMutex of mutexList[Mutex_ActivePool].
MutexInit == [readers |-> 0, writer |-> FALSE]
RLockFree(m) == ~m.writer
LockFree(m) == ~m.writer /\ m.readers = 0
RLock_NotTaken(m) == m
RLock(m) == [m EXCEPT !.readers = @ + 1]
RUnlock(m) == [m EXCEPT !.readers = @ - 1]

\* ------------------------------------------------------ the object pool
\* pool[label][obj] = struct{}{}, creating the label's bucket lazily.
addObj(pool, obj, lbl) ==
    [l \in (DOMAIN pool) \cup {lbl} |->
        IF l = lbl
        THEN (IF l \in DOMAIN pool THEN pool[l] ELSE {}) \cup {obj}
        ELSE pool[l]]

\* delete(pool[label], obj)
removeObj(pool, obj, lbl) ==
    [l \in DOMAIN pool |-> IF l = lbl THEN pool[l] \ {obj} ELSE pool[l]]

\* addObjDefault(obj, isActive): insert into the active or the inactive pool
\* under Label_Default; the active pool is mutated with its write lock held.
addObjDefault(obj, isActive) ==
    IF isActive
    THEN /\ LockFree(mutexList)
         /\ activePool' = addObj(activePool, obj, Label_Default)
         /\ UNCHANGED inactivePool
    ELSE /\ inactivePool' = addObj(inactivePool, obj, Label_Default)
         /\ UNCHANGED activePool

\* removeObjDefault(obj, wasActive): delete from the pool wasActive selects.
removeObjDefault(obj, wasActive) ==
    IF wasActive
    THEN /\ LockFree(mutexList)
         /\ activePool' = removeObj(activePool, obj, Label_Default)
         /\ UNCHANGED inactivePool
    ELSE /\ inactivePool' = removeObj(inactivePool, obj, Label_Default)
         /\ UNCHANGED activePool

\* FlushInputBuffer: the pressed and released edge sets become empty.
FlushInputBuffer(buf) == [buf EXCEPT ![KeyPress] = {}, ![KeyRelease] = {}]

\* ------------------------------------------------ history of one tick
NoTick ==
    [sizeBefore |-> 0, regDrained |-> 0, unregDrained |-> 0,
     regAdded |-> 0, unregRemoved |-> 0,
     phases |-> <<>>, flushes |-> 0,
     stepped |-> [o \in Objs |-> 0], stepStart |-> {},
     executed |-> <<>>, through |-> {}, unregistered |-> {},
     endX |-> [o \in Objs |-> 0], endY |-> [o \in Objs |-> 0],
     enabledAtStart |-> [sys \in SysNames |-> FALSE], toggled |-> {},
     tasks |-> 0, integrated |-> [o \in Objs |-> 0], clean |-> FALSE,
     done |-> FALSE]

NewTick ==
    [NoTick EXCEPT !.sizeBefore = PoolSize(activePool),
                   !.through = PoolObjs(activePool),
                   !.enabledAtStart = enabled]

\* The phase log: phase k is appended when the thread first works on it.
Touch(log, k) == IF log # <<>> /\ Last(log) = k THEN log ELSE Append(log, k)

\* A tick that flushes the input buffer before the step callbacks run.
PhaseAfter_FlushFirst(p) ==
    CASE p = "drainReg"   -> "systems"
      [] p = "systems"    -> "flush"
      [] p = "flush"      -> "steps"
      [] p = "steps"      -> "drainUnreg"
      [] p = "drainUnreg" -> "memXY"
      [] p = "memXY"      -> "loop"

\* doPhysicalUpdate's statement order: the position that follows each loop
\* or statement of the tick.
PhaseAfter(p) ==
    CASE p = "drainReg"   -> "systems"
      [] p = "systems"    -> "steps"
      [] p = "steps"      -> "flush"
      [] p = "flush"      -> "drainUnreg"
      [] p = "drainUnreg" -> "memXY"
      [] p = "memXY"      -> "loop"

PhaseNo(p) ==
    CASE p = "drainReg"   -> 1
      [] p = "systems"    -> 2
      [] p = "execute"    -> 2
      [] p = "steps"      -> 3
      [] p = "flush"      -> 4
      [] p = "drainUnreg" -> 5
      [] p = "memXY"      -> 6
      [] p = "memY"       -> 6

\* What the loop entered at position p starts with.
Enter(p) ==
    /\ wpc' = p
    /\ sysIdx' = IF p = "systems" THEN 1 ELSE sysIdx
    /\ rangeSeen' = {}

\* -------------------------------------------------------- bounds, world
\* Capacity of the executor's task queue.
ExecutorQueueSize == 2
\* The collision system holds a solid collider beyond this coordinate: a
\* movement that would pass it is rejected.
WallAt == 2

Workers == {"w1"}

\* HasColliderAtPolygonWithTag(csys, Collider.Shift(...), "solid")
HasSolidAt(x) == x > WallAt

\* The displacement one integration computes from the speed list (dx, dy).
Hspeed(o) == 1
Vspeed(o) == 1

\* The history notes the active pool the step loop starts with, and the
\* positions the tick ends with.
Entering(t, p) ==
    CASE p = "steps" -> [t EXCEPT !.stepStart = PoolObjs(activePool)]
      [] p = "loop"  -> [t EXCEPT !.done = TRUE, !.endX = X, !.endY = Y]
      [] OTHER       -> t

\* ------------------------------------- requests submitted by user code
RegisterRequests == [payload : Objs, isActive : BOOLEAN]
UnregisterRequests == [payload : Objs]

\* What one OnStep callback may do with the request queues.
OnStepChoices ==
    {[op |-> "none"]}
    \cup (IF submitted < MaxRequests
          THEN {[op |-> "register", req |-> r] : r \in RegisterRequests}
               \cup {[op |-> "unregister", req |-> r] : r \in UnregisterRequests}
          ELSE {})

\* A thread other than the physical thread sends a register request.
SubmitRegister(r) ==
    /\ ~crashed
    /\ submitted < MaxRequests
    /\ Len(registerChannel) < InstantiateChannelSize
    /\ registerChannel' = Append(registerChannel, r)
    /\ submitted' = submitted + 1
    /\ UNCHANGED <<activePool, inactivePool, IsActive, unregisterChannel,
                   mutexList, inputBuffer>>
    /\ UNCHANGED <<sysVars, workVars, tfVars, execVars, lifeVars, renderVars>>

\* A thread other than the physical thread sends an unregister request.
SubmitUnregister(r) ==
    /\ ~crashed
    /\ submitted < MaxRequests
    /\ Len(unregisterChannel) < DeconstructionChannelSize
    /\ unregisterChannel' = Append(unregisterChannel, r)
    /\ submitted' = submitted + 1
    /\ UNCHANGED <<activePool, inactivePool, IsActive, registerChannel,
                   mutexList, inputBuffer>>
    /\ UNCHANGED <<sysVars, workVars, tfVars, execVars, lifeVars, renderVars>>

\* User code writes the public field GameObject2D.IsActive.
SetIsActive(o, b) ==
    /\ ~crashed
    /\ IsActive[o] # b
    /\ IsActive' = [IsActive EXCEPT ![o] = b]
    /\ UNCHANGED <<activePool, inactivePool, registerChannel, unregisterChannel,
                   submitted, mutexList, inputBuffer>>
    /\ UNCHANGED <<sysVars, workVars, tfVars, execVars, lifeVars, renderVars>>

\* The input collaborator records a key going down.
KeyDown(k) ==
    /\ ~crashed
    /\ k \notin inputBuffer[KeyHold]
    /\ inputBuffer' = [inputBuffer EXCEPT ![KeyPress] = @ \cup {k},
                                          ![KeyHold] = @ \cup {k}]
    /\ UNCHANGED <<activePool, inactivePool, IsActive, registerChannel,
                   unregisterChannel, submitted, mutexList>>
    /\ UNCHANGED <<sysVars, workVars, tfVars, execVars, lifeVars, renderVars>>

\* The input collaborator records a key going up.
KeyUp(k) ==
    /\ ~crashed
    /\ k \in inputBuffer[KeyHold]
    /\ inputBuffer' = [inputBuffer EXCEPT ![KeyRelease] = @ \cup {k},
                                          ![KeyHold] = @ \ {k}]
    /\ UNCHANGED <<activePool, inactivePool, IsActive, registerChannel,
                   unregisterChannel, submitted, mutexList>>
    /\ UNCHANGED <<sysVars, workVars, tfVars, execVars, lifeVars, renderVars>>

\* The priority of a system: systemPriorityList is kept in ascending order
\* of it.
Priority(sys) ==
    CASE sys = NameCollision2Dsystem -> 1
      [] sys = NamePhysics2DSystem   -> 2

\* User code calls GetSystemBase().Disable() on a system.
SystemDisable(sys) ==
    /\ ~crashed
    /\ enabled[sys]
    /\ enabled' = [enabled EXCEPT ![sys] = FALSE]
    /\ tick' = [tick EXCEPT !.toggled = @ \cup {sys}]
    /\ UNCHANGED <<systemPriorityList, wpc, sysIdx, rangeSeen, memObj>>
    /\ UNCHANGED <<poolVars, tfVars, execVars, lifeVars, renderVars>>

\* User code calls GetSystemBase().Enable() on a system.
SystemEnable(sys) ==
    /\ ~crashed
    /\ ~enabled[sys]
    /\ enabled' = [enabled EXCEPT ![sys] = TRUE]
    /\ tick' = [tick EXCEPT !.toggled = @ \cup {sys}]
    /\ UNCHANGED <<systemPriorityList, wpc, sysIdx, rangeSeen, memObj>>
    /\ UNCHANGED <<poolVars, tfVars, execVars, lifeVars, renderVars>>

\* ---------------------------------------- operands of doPhysicalUpdate
\* The flag the register drain hands to addObjDefault: *req.isActive
RegisterFlag_Negated(req) == ~req.isActive
RegisterFlag(req) == req.isActive

\* The flag the unregister drain hands to removeObjDefault:
\* req.payload.GetGameObject2D().IsActive
WasActive_Always(req) == TRUE
WasActive(req) == IsActive[req.payload]

\* The entries the range over activePool has still to produce.
StepRange_Revisit == PoolEntries(activePool)
StepRange == PoolEntries(activePool) \ rangeSeen

\* ------------------------------------------------------- runWorkerLoop
\* for app.running { ... }: the loop condition.
LoopCheck ==
    /\ ~crashed
    /\ wpc = "loop"
    /\ wpc' = IF running THEN "select" ELSE "exit"
    /\ UNCHANGED <<sysIdx, rangeSeen, memObj, tick>>
    /\ UNCHANGED <<poolVars, sysVars, tfVars, execVars, lifeVars, renderVars>>

\* case <-app.physicalTicker.C: app.doPhysicalUpdate()
SelectTick ==
    /\ ~crashed
    /\ wpc = "select"
    /\ Enter("drainReg")
    /\ tick' = NewTick
    /\ UNCHANGED memObj
    /\ UNCHANGED <<poolVars, sysVars, tfVars, execVars, lifeVars, renderVars>>

\* -------------------------------------------------- doPhysicalUpdate
\* 1. one iteration of the register drain.
DrainRegister ==
    /\ ~crashed
    /\ wpc = "drainReg"
    /\ Len(registerChannel) > 0
    /\ LET req == Head(registerChannel) IN
       /\ addObjDefault(req.payload, RegisterFlag(req))
       /\ registerChannel' = Tail(registerChannel)
       /\ tick' = [tick EXCEPT
                     !.regDrained = @ + 1,
                     !.regAdded = @ + (IF req.isActive
                                          /\ <<Label_Default, req.payload>>
                                               \notin PoolEntries(activePool)
                                       THEN 1 ELSE 0),
                     !.phases = Touch(@, PhaseNo(wpc)),
                     !.through = @ \cap PoolObjs(activePool')]
    /\ UNCHANGED <<IsActive, unregisterChannel, submitted, mutexList, inputBuffer>>
    /\ UNCHANGED <<wpc, sysIdx, rangeSeen, memObj>>
    /\ UNCHANGED <<sysVars, tfVars, execVars, lifeVars, renderVars>>

\* 1. the register queue is empty: the drain loop ends.
RegisterDrained ==
    /\ ~crashed
    /\ wpc = "drainReg"
    /\ Len(registerChannel) = 0
    /\ Enter(PhaseAfter(wpc))
    /\ tick' = Entering([tick EXCEPT !.phases = Touch(@, PhaseNo(wpc))],
                         PhaseAfter(wpc))
    /\ UNCHANGED memObj
    /\ UNCHANGED <<poolVars, sysVars, tfVars, execVars, lifeVars, renderVars>>

\* sys.GetSystemBase().IsEnabled()
IsEnabled_Always(sys) == TRUE
IsEnabled(sys) == enabled[sys]

\* 2. one iteration of the loop over systemPriorityList.
ExecuteSystem ==
    /\ ~crashed
    /\ wpc = "systems"
    /\ sysIdx <= Len(systemPriorityList)
    /\ LET sys == systemPriorityList[sysIdx]
           runs == IsEnabled(sys)
           phys == runs /\ sys = NamePhysics2DSystem
       IN
       /\ tick' = [tick EXCEPT
                     !.executed = IF runs THEN Append(@, sys) ELSE @,
                     !.phases = Touch(@, PhaseNo(wpc)),
                     !.clean = IF phys
                               THEN /\ taskQueue = <<>>
                                    /\ \A w \in Workers : worker[w].pc = "idle"
                                    /\ \A o \in Objs : tick.integrated[o] = 0
                               ELSE @]
       /\ wpc' = IF phys THEN "execute" ELSE wpc
       /\ sysIdx' = IF phys THEN sysIdx ELSE sysIdx + 1
       /\ rangeSeen' = {}
       \* Execute's range statement declares a new variable item: the tasks
       \* of earlier calls keep the variable, and the value, of their call.
       /\ taskQueue' = IF phys
                       THEN [i \in DOMAIN taskQueue |->
                               IF taskQueue[i] = "item" THEN item ELSE taskQueue[i]]
                       ELSE taskQueue
    /\ UNCHANGED <<memObj, obj2data, loopvar, trav, body, item, worker>>
    /\ UNCHANGED <<poolVars, sysVars, tfVars, lifeVars, renderVars>>

\* What the closure of one iteration holds: the loop's variable item where
\* the build has one variable per loop, its own copy of item otherwise.
Captured(o) == IF loopvar = "shared" THEN "item" ELSE o

\* Physics2DSystem.Execute: one iteration, item is set and a task that
\* captures the variable item is handed to executor.AsyncExecute.
SubmitTask(o) ==
    /\ ~crashed
    /\ wpc = "execute"
    /\ o \in obj2data
    /\ <<NamePhysics2DSystem, o>> \notin rangeSeen
    /\ Len(taskQueue) < ExecutorQueueSize
    /\ item' = o
    /\ taskQueue' = Append(taskQueue, Captured(o))
    /\ rangeSeen' = rangeSeen \cup {<<NamePhysics2DSystem, o>>}
    /\ tick' = [tick EXCEPT !.tasks = @ + 1]
    /\ UNCHANGED <<wpc, sysIdx, memObj, obj2data, loopvar, trav, body, worker>>
    /\ UNCHANGED <<poolVars, sysVars, tfVars, lifeVars, renderVars>>

\* Physics2DSystem.Execute returns: every subscribed object was submitted.
ExecuteReturn ==
    /\ ~crashed
    /\ wpc = "execute"
    /\ \A o \in obj2data : <<NamePhysics2DSystem, o>> \in rangeSeen
    /\ wpc' = "systems"
    /\ sysIdx' = sysIdx + 1
    /\ rangeSeen' = {}
    /\ UNCHANGED <<memObj, tick>>
    /\ UNCHANGED <<poolVars, sysVars, tfVars, execVars, lifeVars, renderVars>>

\* 2. the loop over the systems ends.
SystemsDone ==
    /\ ~crashed
    /\ wpc = "systems"
    /\ sysIdx > Len(systemPriorityList)
    /\ Enter(PhaseAfter(wpc))
    /\ tick' = Entering([tick EXCEPT !.phases = Touch(@, PhaseNo(wpc))],
                         PhaseAfter(wpc))
    /\ UNCHANGED memObj
    /\ UNCHANGED <<poolVars, sysVars, tfVars, execVars, lifeVars, renderVars>>

\* 3. one iteration of the step loop: OnStep(obj), then Sprite.DoFrameStep().
\* The callback may send a request; on a full queue the send blocks, and the
\* queue's only receiver is this thread.
StepObject(e) ==
    /\ ~crashed
    /\ wpc = "steps"
    /\ e \in StepRange
    /\ \E cb \in OnStepChoices :
         LET toReg == cb.op = "register"
             toUnreg == cb.op = "unregister"
             blocks == \/ toReg /\ Len(registerChannel) >= InstantiateChannelSize
                       \/ toUnreg /\ Len(unregisterChannel) >= DeconstructionChannelSize
         IN
         /\ wpc' = IF blocks THEN "blocked" ELSE wpc
         /\ registerChannel' = IF toReg /\ ~blocks
                               THEN Append(registerChannel, cb.req)
                               ELSE registerChannel
         /\ unregisterChannel' = IF toUnreg /\ ~blocks
                                 THEN Append(unregisterChannel, cb.req)
                                 ELSE unregisterChannel
         /\ submitted' = IF (toReg \/ toUnreg) /\ ~blocks
                         THEN submitted + 1 ELSE submitted
         /\ rangeSeen' = IF blocks THEN rangeSeen ELSE rangeSeen \cup {e}
         /\ tick' = [tick EXCEPT !.stepped[e[2]] = @ + 1,
                                 !.phases = Touch(@, PhaseNo(wpc))]
    /\ UNCHANGED <<activePool, inactivePool, IsActive, mutexList, inputBuffer>>
    /\ UNCHANGED <<sysIdx, memObj>>
    /\ UNCHANGED <<sysVars, tfVars, execVars, lifeVars, renderVars>>

\* 3. the step loop ends.
StepsDone ==
    /\ ~crashed
    /\ wpc = "steps"
    /\ StepRange = {}
    /\ Enter(PhaseAfter(wpc))
    /\ tick' = Entering([tick EXCEPT !.phases = Touch(@, PhaseNo(wpc))],
                         PhaseAfter(wpc))
    /\ UNCHANGED memObj
    /\ UNCHANGED <<poolVars, sysVars, tfVars, execVars, lifeVars, renderVars>>

\* 4. FlushInputBuffer()
Flush ==
    /\ ~crashed
    /\ wpc = "flush"
    /\ inputBuffer' = FlushInputBuffer(inputBuffer)
    /\ Enter(PhaseAfter(wpc))
    /\ tick' = Entering([tick EXCEPT !.phases = Touch(@, PhaseNo(wpc)),
                                     !.flushes = @ + 1],
                         PhaseAfter(wpc))
    /\ UNCHANGED <<activePool, inactivePool, IsActive, registerChannel,
                   unregisterChannel, submitted, mutexList>>
    /\ UNCHANGED memObj
    /\ UNCHANGED <<sysVars, tfVars, execVars, lifeVars, renderVars>>

\* 5. one iteration of the unregister drain: the pool is chosen by the
\* object's IsActive field as it is now.
DrainUnregister ==
    /\ ~crashed
    /\ wpc = "drainUnreg"
    /\ Len(unregisterChannel) > 0
    /\ LET req == Head(unregisterChannel)
       IN
       /\ removeObjDefault(req.payload, WasActive(req))
       /\ unregisterChannel' = Tail(unregisterChannel)
       /\ tick' = [tick EXCEPT
                     !.unregDrained = @ + 1,
                     !.unregistered = @ \cup {req.payload},
                     !.unregRemoved = @ + (IF IsActive[req.payload]
                                              /\ <<Label_Default, req.payload>>
                                                   \in PoolEntries(activePool)
                                           THEN 1 ELSE 0),
                     !.phases = Touch(@, PhaseNo(wpc)),
                     !.through = @ \cap PoolObjs(activePool')]
    /\ UNCHANGED <<IsActive, registerChannel, submitted, mutexList, inputBuffer>>
    /\ UNCHANGED <<wpc, sysIdx, rangeSeen, memObj>>
    /\ UNCHANGED <<sysVars, tfVars, execVars, lifeVars, renderVars>>

\* 5. the unregister queue is empty: the drain loop ends.
UnregisterDrained ==
    /\ ~crashed
    /\ wpc = "drainUnreg"
    /\ Len(unregisterChannel) = 0
    /\ Enter(PhaseAfter(wpc))
    /\ tick' = Entering([tick EXCEPT !.phases = Touch(@, PhaseNo(wpc))],
                         PhaseAfter(wpc))
    /\ UNCHANGED memObj
    /\ UNCHANGED <<poolVars, sysVars, tfVars, execVars, lifeVars, renderVars>>

\* 6. MemXY of the next object, first statement: tf.prevX = tf.X
MemX(e) ==
    /\ ~crashed
    /\ wpc = "memXY"
    /\ e \in PoolEntries(activePool) \ rangeSeen
    /\ prevX' = [prevX EXCEPT ![e[2]] = X[e[2]]]
    /\ memObj' = e
    /\ wpc' = "memY"
    /\ tick' = [tick EXCEPT !.phases = Touch(@, PhaseNo(wpc))]
    /\ UNCHANGED <<sysIdx, rangeSeen, X, Y, prevY>>
    /\ UNCHANGED <<poolVars, sysVars, execVars, lifeVars, renderVars>>

\* 6. MemXY, second statement: tf.prevY = tf.Y
MemY ==
    /\ ~crashed
    /\ wpc = "memY"
    /\ prevY' = [prevY EXCEPT ![memObj[2]] = Y[memObj[2]]]
    /\ rangeSeen' = rangeSeen \cup {memObj}
    /\ wpc' = "memXY"
    /\ UNCHANGED <<sysIdx, memObj, tick, X, Y, prevX>>
    /\ UNCHANGED <<poolVars, sysVars, execVars, lifeVars, renderVars>>

\* 6. the memorize loop ends, and doPhysicalUpdate returns.
MemDone ==
    /\ ~crashed
    /\ wpc = "memXY"
    /\ PoolEntries(activePool) \subseteq rangeSeen
    /\ Enter(PhaseAfter(wpc))
    /\ tick' = Entering([tick EXCEPT !.phases = Touch(@, PhaseNo(wpc))],
                         PhaseAfter(wpc))
    /\ UNCHANGED memObj
    /\ UNCHANGED <<poolVars, sysVars, tfVars, execVars, lifeVars, renderVars>>

\* ------------------------------------ execute: the speed list traversal
\* The speed list is a container/list of SpeedVector values.  An element is
\* known by the place it had when the list was built; 0 stands for nil.
MaxVectors == 3
MaxSpeed == 2
VectorIds == 1..MaxVectors
SpeedVectors == [Speed : 0..MaxSpeed, Acceleration : 0..MaxSpeed, Axis : {"x", "y"}]

NoTraversal ==
    [list |-> <<>>, entry |-> <<>>, element |-> 0, dx |-> 0, dy |-> 0,
     visits |-> [id \in VectorIds |-> 0], pc |-> "idle"]

\* The speed lists of up to MaxVectors vectors.
SpeedLists ==
    UNION {[1..n -> SpeedVectors] : n \in 0..MaxVectors}

\* The list as execute finds it: each vector with its element's identity.
AsElements(vs) == [i \in DOMAIN vs |-> [id |-> i, val |-> vs[i]]]

IndexOf(list, id) == CHOOSE i \in DOMAIN list : list[i].id = id

\* linkedList.Front()
Front(list) == IF list = <<>> THEN 0 ELSE list[1].id

\* element.Next() of an element that is in the list.
ElementNext(list, id) ==
    LET i == IndexOf(list, id) IN
    IF i < Len(list) THEN list[i + 1].id ELSE 0

\* element.Next() of an element that linkedList.Remove has just removed:
\* Remove clears the element's list and next fields, and Next returns nil.
RemovedElementNext(list, id) == 0

\* linkedList.Remove(element)
ListRemove(list, id) ==
    LET i == IndexOf(list, id) IN
    [j \in 1..(Len(list) - 1) |-> IF j < i THEN list[j] ELSE list[j + 1]]

\* execute is entered: linkedList := GetSpeedList(); element := Front()
TraverseBegin ==
    /\ ~crashed
    /\ trav.pc \in {"idle", "done"}
    /\ trav' = [trav EXCEPT !.entry = trav.list,
                            !.element = Front(trav.list),
                            !.dx = 0, !.dy = 0,
                            !.visits = [id \in VectorIds |-> 0],
                            !.pc = "loop"]
    /\ UNCHANGED <<obj2data, loopvar, body, item, taskQueue, worker>>
    /\ UNCHANGED <<poolVars, sysVars, workVars, tfVars, lifeVars, renderVars>>

\* One iteration of the loop over the speed list: the vector's contribution
\* is added to dx, dy; a positive speed is attenuated, and the element is
\* removed (and the iteration left by continue) if the speed falls below 0,
\* else the attenuated value is stored; then element = element.Next().
TraverseStep ==
    /\ ~crashed
    /\ trav.pc = "loop"
    /\ trav.element # 0
    /\ LET id == trav.element
           i == IndexOf(trav.list, id)
           val == trav.list[i].val
           atten == IF val.Speed > 0 THEN val.Speed - val.Acceleration ELSE val.Speed
           removed == val.Speed > 0 /\ atten < 0
       IN
       trav' = [trav EXCEPT
                  !.dx = IF val.Axis = "x" THEN @ + val.Speed ELSE @,
                  !.dy = IF val.Axis = "y" THEN @ + val.Speed ELSE @,
                  !.visits[id] = @ + 1,
                  !.list = IF removed
                           THEN ListRemove(trav.list, id)
                           ELSE [trav.list EXCEPT ![i].val.Speed = atten],
                  !.element = IF removed
                              THEN RemovedElementNext(trav.list, id)
                              ELSE ElementNext(trav.list, id)]
    /\ UNCHANGED <<obj2data, loopvar, body, item, taskQueue, worker>>
    /\ UNCHANGED <<poolVars, sysVars, workVars, tfVars, lifeVars, renderVars>>

\* The loop ends: element == nil.
TraverseEnd ==
    /\ ~crashed
    /\ trav.pc = "loop"
    /\ trav.element = 0
    /\ trav' = [trav EXCEPT !.pc = "done"]
    /\ UNCHANGED <<obj2data, loopvar, body, item, taskQueue, worker>>
    /\ UNCHANGED <<poolVars, sysVars, workVars, tfVars, lifeVars, renderVars>>

\* --------------------------------------- execute: after the speed list
\* The subscribed object whose wrapper execute is given.
Body == "o1"

\* The rigid body's gravity and the wrapper's PolygonCollider (collider is
\* FALSE for nil), the speeds execute sets, and the position execute was
\* entered with.
NoBody ==
    [UseGravity |-> FALSE, collider |-> TRUE, gSpeed |-> 0, gAcc |-> 0,
     hspeed |-> 0, vspeed |-> 0, set |-> FALSE, x0 |-> 0, y0 |-> 0,
     pc |-> "idle"]

\* item.Collider, a field of the embedded *PolygonCollider, is read: a nil
\* PolygonCollider is dereferenced.
ReadsCollider(b) == ~b.collider

\* The constant gravity effect.  The gravity vector points along y.  With
\* UseGravity the collider is shifted by (dx+gdx, dy+gdy) and tested: on a
\* solid the gravity speed is zeroed, else it grows and is added to dx, dy.
ExecuteGravity ==
    /\ ~crashed
    /\ trav.pc = "done"
    /\ body.pc \in {"idle", "returned"}
    /\ LET gdy == body.gSpeed
           entered == [body EXCEPT !.x0 = X[Body], !.y0 = Y[Body], !.set = FALSE]
           grounded == \/ HasSolidAt(X[Body] + trav.dx)
                       \/ HasSolidAt(Y[Body] + trav.dy + gdy)
       IN
       IF ~body.UseGravity
       THEN /\ body' = [entered EXCEPT !.pc = "setSpeed"]
            /\ UNCHANGED <<trav, crashed>>
       ELSE IF ReadsCollider(body)
       THEN /\ body' = [entered EXCEPT !.pc = "panicked"]
            /\ crashed' = TRUE
            /\ UNCHANGED trav
       ELSE IF grounded
       THEN /\ body' = [entered EXCEPT !.gSpeed = 0, !.pc = "setSpeed"]
            /\ UNCHANGED <<trav, crashed>>
       ELSE /\ body' = [entered EXCEPT
                          !.gSpeed = IF @ + body.gAcc > MaxSpeed
                                     THEN MaxSpeed ELSE @ + body.gAcc,
                          !.pc = "setSpeed"]
            /\ trav' = [trav EXCEPT !.dy = @ + gdy]
            /\ UNCHANGED crashed
    /\ UNCHANGED <<obj2data, loopvar, item, taskQueue, worker>>
    /\ UNCHANGED <<casList, status, running, sigKill, wg, mpc, kpc, waitpc, life,
                   npc, instances, parallelism, spc>>
    /\ UNCHANGED <<poolVars, sysVars, workVars, tfVars, renderVars>>

\* item.SetHspeed(dx); item.SetVspeed(dy); then execute returns if the
\* PolygonCollider is nil.
ExecuteSetSpeed ==
    /\ ~crashed
    /\ body.pc = "setSpeed"
    /\ body' = [body EXCEPT !.hspeed = trav.dx, !.vspeed = trav.dy,
                            !.set = TRUE,
                            !.pc = IF body.collider THEN "moveX" ELSE "returned"]
    /\ trav' = [trav EXCEPT !.pc = IF body.collider THEN @ ELSE "idle"]
    /\ UNCHANGED <<obj2data, loopvar, item, taskQueue, worker>>
    /\ UNCHANGED <<poolVars, sysVars, workVars, tfVars, lifeVars, renderVars>>

\* if no solid collider at Shift(dx, 0), Pos.X += dx
ExecuteMoveX ==
    /\ ~crashed
    /\ body.pc = "moveX"
    /\ X' = IF HasSolidAt(X[Body] + trav.dx)
            THEN X
            ELSE [X EXCEPT ![Body] = @ + trav.dx]
    /\ body' = [body EXCEPT !.pc = "moveY"]
    /\ UNCHANGED <<Y, prevX, prevY>>
    /\ UNCHANGED <<obj2data, loopvar, trav, item, taskQueue, worker>>
    /\ UNCHANGED <<poolVars, sysVars, workVars, lifeVars, renderVars>>

\* if no solid collider at Shift(0, dy), Pos.Y += dy; execute returns.
ExecuteMoveY ==
    /\ ~crashed
    /\ body.pc = "moveY"
    /\ Y' = IF HasSolidAt(Y[Body] + trav.dy)
            THEN Y
            ELSE [Y EXCEPT ![Body] = @ + trav.dy]
    /\ body' = [body EXCEPT !.pc = "returned"]
    /\ trav' = [trav EXCEPT !.pc = "idle"]
    /\ UNCHANGED <<X, prevX, prevY>>
    /\ UNCHANGED <<obj2data, loopvar, item, taskQueue, worker>>
    /\ UNCHANGED <<poolVars, sysVars, workVars, lifeVars, renderVars>>

\* ----------------------------------------------------- initial states
\* GlobalInitializer and NewApplication: empty pools and queues.
InitPool ==
    /\ activePool = objPoolInit
    /\ inactivePool = objPoolInit
    /\ IsActive = [o \in Objs |-> TRUE]
    /\ registerChannel = <<>>
    /\ unregisterChannel = <<>>
    /\ submitted = 0
    /\ mutexList = MutexInit
    /\ inputBuffer = InputBufferInit

InitTransform ==
    /\ X = [o \in Objs |-> 0]
    /\ Y = [o \in Objs |-> 0]
    /\ prevX = [o \in Objs |-> 0]
    /\ prevY = [o \in Objs |-> 0]

InitWorker ==
    /\ sysIdx = 1
    /\ rangeSeen = {}
    /\ memObj = <<Label_Default, "o1">>
    /\ tick = NoTick

InitExecutor ==
    /\ loopvar = "shared"
    /\ trav = NoTraversal
    /\ body = NoBody
    /\ item = "nil"
    /\ taskQueue = <<>>
    /\ worker = [w \in Workers |-> [pc |-> "idle", obj |-> "nil"]]

InitRender ==
    /\ rpc = "idle"
    /\ renderSortList = <<>>
    /\ renderSeen = {}
    /\ spriteZ = [o \in Objs |-> 0]
    /\ renderLog = <<>>

NoLife == [killCalled |-> FALSE, inits |-> 0, execRuns |-> 0, spawns |-> 0,
           secondKillOnClosed |-> FALSE]

\* The application as Start leaves it once the render loop is entered:
\* status Running, the physical thread at its loop, every system enabled.
InitRunning ==
    /\ casList = TRUE
    /\ npc = [c \in Callers |-> IF c = "c1" THEN "returned" ELSE "none"]
    /\ instances = 1
    /\ parallelism = 1
    /\ spc = "none"
    /\ status = "Running"
    /\ running = TRUE
    /\ sigKill = [msgs |-> 0, closed |-> FALSE]
    /\ wg = 1
    /\ mpc = "render"
    /\ kpc = "none"
    /\ waitpc = "none"
    /\ crashed = FALSE
    /\ life = NoLife
    /\ wpc = "loop"
    /\ systemPriorityList = <<NameCollision2Dsystem, NamePhysics2DSystem>>
    /\ enabled = [s \in SysNames |-> TRUE]

\* ---------------------------------------------------------------------
\* Spec: a running application whose physical thread ticks while user
\* threads and step callbacks submit register and unregister requests.
\* No object is subscribed to the physics system.
Init ==
    /\ InitPool
    /\ InitTransform
    /\ InitWorker
    /\ InitExecutor
    /\ InitRender
    /\ InitRunning
    /\ obj2data = {}

UserRequest ==
    \/ \E r \in RegisterRequests : SubmitRegister(r)
    \/ \E r \in UnregisterRequests : SubmitUnregister(r)
    \/ \E o \in Objs, b \in BOOLEAN : SetIsActive(o, b)

UserInput ==
    \/ \E k \in Keys : KeyDown(k)
    \/ \E k \in Keys : KeyUp(k)

PhysicalTick ==
    \/ LoopCheck
    \/ SelectTick
    \/ DrainRegister
    \/ RegisterDrained
    \/ ExecuteSystem
    \/ ExecuteReturn
    \/ SystemsDone
    \/ \E e \in {Label_Default} \X Objs : StepObject(e)
    \/ StepsDone
    \/ Flush
    \/ DrainUnregister
    \/ UnregisterDrained
    \/ \E e \in {Label_Default} \X Objs : MemX(e)
    \/ MemY
    \/ MemDone

Next == UserRequest \/ PhysicalTick

Spec == Init /\ [][Next]_vars

\* ---------------------------------------------------------------------
\* SpecInput: the same application with one object already registered as
\* active, while the input collaborator records key events; the requests
\* come from the step callbacks.
InitInput ==
    /\ activePool = addObj(objPoolInit, "o1", Label_Default)
    /\ inactivePool = objPoolInit
    /\ IsActive = [o \in Objs |-> TRUE]
    /\ registerChannel = <<>>
    /\ unregisterChannel = <<>>
    /\ submitted = 0
    /\ mutexList = MutexInit
    /\ inputBuffer = InputBufferInit
    /\ InitTransform
    /\ InitWorker
    /\ InitExecutor
    /\ InitRender
    /\ InitRunning
    /\ obj2data = {}

NextInput == UserInput \/ PhysicalTick

SpecInput == InitInput /\ [][NextInput]_vars

\* ---------------------------------------------------------- doRender
\* The arrangements of seq.
Arrangements(seq) ==
    LET n == Len(seq)
        bij == {f \in [1..n -> 1..n] : \A i, j \in 1..n : i # j => f[i] # f[j]}
    IN {[i \in 1..n |-> seq[f[i]]] : f \in bij}

\* sort.Slice with less(i, j) = list[i].Sprite.Z > list[j].Sprite.Z: some
\* arrangement in which no element precedes one of greater Z (the sort is
\* not stable).
SortByZ_Ascending(seq) ==
    {q \in Arrangements(seq) :
        \A i, j \in 1..Len(q) : i < j => spriteZ[q[i]] <= spriteZ[q[j]]}

SortByZ(seq) ==
    {q \in Arrangements(seq) :
        \A i, j \in 1..Len(q) : i < j => spriteZ[q[i]] >= spriteZ[q[j]]}

\* renderSortList = renderSortList[:0]; mutexList[Mutex_ActivePool].RLock()
RenderBegin ==
    /\ ~crashed
    /\ mpc = "render"
    /\ rpc = "idle"
    /\ RLockFree(mutexList)
    /\ mutexList' = RLock(mutexList)
    /\ renderSortList' = <<>>
    /\ renderSeen' = {}
    /\ renderLog' = <<>>
    /\ rpc' = "walk"
    /\ UNCHANGED <<activePool, inactivePool, IsActive, registerChannel,
                   unregisterChannel, submitted, inputBuffer, spriteZ>>
    /\ UNCHANGED <<sysVars, workVars, tfVars, execVars, lifeVars>>

\* One iteration of the walk over activePool: append the object.
RenderWalk(e) ==
    /\ ~crashed
    /\ rpc = "walk"
    /\ e \in PoolEntries(activePool) \ renderSeen
    /\ renderSortList' = Append(renderSortList, e[2])
    /\ renderSeen' = renderSeen \cup {e}
    /\ UNCHANGED <<rpc, spriteZ, renderLog>>
    /\ UNCHANGED <<poolVars, sysVars, workVars, tfVars, execVars, lifeVars>>

\* The walk ends: mutexList[Mutex_ActivePool].RUnlock()
RenderUnlock ==
    /\ ~crashed
    /\ rpc = "walk"
    /\ PoolEntries(activePool) \subseteq renderSeen
    /\ mutexList' = RUnlock(mutexList)
    /\ rpc' = "sort"
    /\ UNCHANGED <<activePool, inactivePool, IsActive, registerChannel,
                   unregisterChannel, submitted, inputBuffer>>
    /\ UNCHANGED <<renderSortList, renderSeen, spriteZ, renderLog>>
    /\ UNCHANGED <<sysVars, workVars, tfVars, execVars, lifeVars>>

\* sort.Slice(renderSortList, ...): from far to near.
RenderSort ==
    /\ ~crashed
    /\ rpc = "sort"
    /\ renderSortList' \in SortByZ(renderSortList)
    /\ rpc' = "draw"
    /\ UNCHANGED <<renderSeen, spriteZ, renderLog>>
    /\ UNCHANGED <<poolVars, sysVars, workVars, tfVars, execVars, lifeVars>>

\* One iteration of the callback loop: elem.Callbacks.OnRender(elem)
RenderCallback ==
    /\ ~crashed
    /\ rpc = "draw"
    /\ Len(renderLog) < Len(renderSortList)
    /\ renderLog' = Append(renderLog, renderSortList[Len(renderLog) + 1])
    /\ UNCHANGED <<rpc, renderSortList, renderSeen, spriteZ>>
    /\ UNCHANGED <<poolVars, sysVars, workVars, tfVars, execVars, lifeVars>>

\* doRender returns.
RenderDone ==
    /\ ~crashed
    /\ rpc = "draw"
    /\ Len(renderLog) = Len(renderSortList)
    /\ rpc' = "idle"
    /\ renderSeen' = {}
    /\ UNCHANGED <<renderSortList, spriteZ, renderLog>>
    /\ UNCHANGED <<poolVars, sysVars, workVars, tfVars, execVars, lifeVars>>

RenderTick ==
    \/ RenderBegin
    \/ \E e \in PoolEntries(activePool) : RenderWalk(e)
    \/ RenderUnlock
    \/ RenderSort
    \/ RenderCallback
    \/ RenderDone

\* ---------------------------------------------------------------------
\* SpecRender: the running application with its render loop: the render
\* thread walks the active pool while the physical thread drains requests
\* sent by user threads.
\* Sprite.Z of the objects: o2 lies farther than o1.
DepthOf == [o \in Objs |-> IF o = "o1" THEN 1 ELSE 2]

InitRenderLoop ==
    /\ InitPool
    /\ InitTransform
    /\ InitWorker
    /\ InitExecutor
    /\ InitRunning
    /\ obj2data = {}
    /\ rpc = "idle"
    /\ renderSortList = <<>>
    /\ renderSeen = {}
    /\ spriteZ = DepthOf
    /\ renderLog = <<>>

UserSubmit ==
    \/ \E r \in RegisterRequests : SubmitRegister(r)
    \/ \E r \in UnregisterRequests : SubmitUnregister(r)

NextRender == UserSubmit \/ PhysicalTick \/ RenderTick

SpecRender == InitRenderLoop /\ [][NextRender]_vars

\* ---------------------------------------------------------------------
\* SpecDraw: doRender alone, on a fixed active pool of up to three objects
\* with any depth keys from DepthKeys.
DrawObjs == Objs \cup {"o3"}
MaxDepth == 3
DepthKeys == 1..MaxDepth

InitDraw ==
    /\ \E pool \in SUBSET DrawObjs :
         activePool = [l \in {Label_Default} |-> pool]
    /\ inactivePool = objPoolInit
    /\ IsActive = [o \in Objs |-> TRUE]
    /\ registerChannel = <<>>
    /\ unregisterChannel = <<>>
    /\ submitted = MaxRequests
    /\ mutexList = MutexInit
    /\ inputBuffer = InputBufferInit
    /\ InitTransform
    /\ InitWorker
    /\ InitExecutor
    /\ InitRunning
    /\ obj2data = {}
    /\ rpc = "idle"
    /\ renderSortList = <<>>
    /\ renderSeen = {}
    /\ spriteZ \in [DrawObjs -> DepthKeys]
    /\ renderLog = <<>>

NextDraw == RenderTick

SpecDraw == InitDraw /\ [][NextDraw]_vars

\* ------------------------------------------------ executor workers
\* The object a queued task integrates: the closure reads the variable item
\* of its Execute call when it runs.
TaskItem(t) == IF t = "item" THEN item ELSE t

\* A worker takes the next task and runs execute up to the position update:
\* the speed list and gravity give dx = Hspeed, dy = Vspeed.
TaskStart(w) ==
    /\ ~crashed
    /\ worker[w].pc = "idle"
    /\ taskQueue # <<>>
    /\ worker' = [worker EXCEPT ![w] = [pc |-> "moveX",
                                        obj |-> TaskItem(Head(taskQueue))]]
    /\ taskQueue' = Tail(taskQueue)
    /\ tick' = [tick EXCEPT !.integrated[TaskItem(Head(taskQueue))] = @ + 1]
    /\ UNCHANGED <<obj2data, loopvar, trav, body, item>>
    /\ UNCHANGED <<wpc, sysIdx, rangeSeen, memObj>>
    /\ UNCHANGED <<poolVars, sysVars, tfVars, lifeVars, renderVars>>

\* execute: if no solid collider at Shift(dx, 0), Pos.X += dx
TaskMoveX(w) ==
    /\ ~crashed
    /\ worker[w].pc = "moveX"
    /\ LET o == worker[w].obj IN
       X' = IF HasSolidAt(X[o] + Hspeed(o))
            THEN X
            ELSE [X EXCEPT ![o] = @ + Hspeed(o)]
    /\ worker' = [worker EXCEPT ![w].pc = "moveY"]
    /\ UNCHANGED <<Y, prevX, prevY, obj2data, loopvar, trav, body, item, taskQueue>>
    /\ UNCHANGED <<poolVars, sysVars, workVars, lifeVars, renderVars>>

\* execute: if no solid collider at Shift(0, dy), Pos.Y += dy; then the
\* task returns.
TaskMoveY(w) ==
    /\ ~crashed
    /\ worker[w].pc = "moveY"
    /\ LET o == worker[w].obj IN
       Y' = IF HasSolidAt(Y[o] + Vspeed(o))
            THEN Y
            ELSE [Y EXCEPT ![o] = @ + Vspeed(o)]
    /\ worker' = [worker EXCEPT ![w] = [pc |-> "idle", obj |-> "nil"]]
    /\ UNCHANGED <<X, prevX, prevY, obj2data, loopvar, trav, body, item, taskQueue>>
    /\ UNCHANGED <<poolVars, sysVars, workVars, lifeVars, renderVars>>

ExecutorTask ==
    \E w \in Workers : TaskStart(w) \/ TaskMoveX(w) \/ TaskMoveY(w)

\* ---------------------------------------------------------------------
\* SpecPhys: a running application with both objects registered as active
\* and subscribed to the physics system; the executor's worker runs the
\* submitted tasks while the physical thread goes on with its tick.  User
\* code has sent all its requests, and both queues are empty.
InitPhys ==
    /\ activePool = addObj(addObj(objPoolInit, "o1", Label_Default),
                           "o2", Label_Default)
    /\ inactivePool = objPoolInit
    /\ IsActive = [o \in Objs |-> TRUE]
    /\ registerChannel = <<>>
    /\ unregisterChannel = <<>>
    /\ submitted = MaxRequests
    /\ mutexList = MutexInit
    /\ inputBuffer = InputBufferInit
    /\ InitTransform
    /\ InitWorker
    /\ InitExecutor
    /\ InitRender
    /\ InitRunning
    /\ obj2data = Objs

PhysicsTick ==
    \/ LoopCheck
    \/ SelectTick
    \/ RegisterDrained
    \/ ExecuteSystem
    \/ \E o \in Objs : SubmitTask(o)
    \/ ExecuteReturn
    \/ SystemsDone
    \/ \E e \in {Label_Default} \X Objs : StepObject(e)
    \/ StepsDone
    \/ Flush
    \/ UnregisterDrained
    \/ \E e \in {Label_Default} \X Objs : MemX(e)
    \/ MemY
    \/ MemDone

NextPhys == PhysicsTick \/ ExecutorTask

SpecPhys == InitPhys /\ [][NextPhys]_vars

\* ---------------------------------------------------------------------
\* SpecExec: the application of SpecPhys under either build: the range
\* variable item of Execute is one variable per loop, or one per iteration.
LoopVarBuilds == {"shared", "perIteration"}

InitExec ==
    /\ activePool = addObj(addObj(objPoolInit, "o1", Label_Default),
                           "o2", Label_Default)
    /\ inactivePool = objPoolInit
    /\ IsActive = [o \in Objs |-> TRUE]
    /\ registerChannel = <<>>
    /\ unregisterChannel = <<>>
    /\ submitted = MaxRequests
    /\ mutexList = MutexInit
    /\ inputBuffer = InputBufferInit
    /\ InitTransform
    /\ InitWorker
    /\ loopvar \in LoopVarBuilds
    /\ trav = NoTraversal
    /\ body = NoBody
    /\ item = "nil"
    /\ taskQueue = <<>>
    /\ worker = [w \in Workers |-> [pc |-> "idle", obj |-> "nil"]]
    /\ InitRender
    /\ InitRunning
    /\ obj2data = Objs

SpecExec == InitExec /\ [][NextPhys]_vars

\* ---------------------------------------------------------------------
\* SpecSaturate: the application of SpecInput, one object registered as
\* active, while user threads and the object's step callback both send
\* register and unregister requests.
SpecSaturate == InitInput /\ [][Next]_vars

\* ---------------------------------------------------------------------
\* SpecSpeed: execute's loop over the speed list of one rigid body, for
\* every speed list of up to MaxVectors vectors, invoked tick after tick.
InitSpeed ==
    /\ InitPool
    /\ InitTransform
    /\ InitWorker
    /\ loopvar = "shared"
    /\ item = "nil"
    /\ taskQueue = <<>>
    /\ worker = [w \in Workers |-> [pc |-> "idle", obj |-> "nil"]]
    /\ InitRender
    /\ InitRunning
    /\ obj2data = {"o1"}
    /\ body = NoBody
    /\ \E vs \in SpeedLists : trav = [NoTraversal EXCEPT !.list = AsElements(vs)]

NextSpeed == TraverseBegin \/ TraverseStep \/ TraverseEnd

SpecSpeed == InitSpeed /\ [][NextSpeed]_vars

\* ---------------------------------------------------------------------
\* SpecBody: the whole of execute for one subscribed object, invoked tick
\* after tick: any speed list of up to MaxBodyVectors vectors, gravity used or
\* not, PolygonCollider nil or not.
MaxBodyVectors == 1
BodySpeedLists == UNION {[1..n -> SpeedVectors] : n \in 0..MaxBodyVectors}
Bodies ==
    {[NoBody EXCEPT !.UseGravity = g, !.collider = c, !.gSpeed = gs, !.gAcc = ga] :
        g \in BOOLEAN, c \in BOOLEAN, gs \in 0..1, ga \in 0..1}

InitBody ==
    /\ InitPool
    /\ InitTransform
    /\ InitWorker
    /\ loopvar = "shared"
    /\ item = "nil"
    /\ taskQueue = <<>>
    /\ worker = [w \in Workers |-> [pc |-> "idle", obj |-> "nil"]]
    /\ InitRender
    /\ InitRunning
    /\ obj2data = {Body}
    /\ body \in Bodies
    /\ \E vs \in BodySpeedLists : trav = [NoTraversal EXCEPT !.list = AsElements(vs)]

\* execute is entered when no invocation for the object is under way.
ExecuteBegin ==
    /\ body.pc \in {"idle", "returned"}
    /\ trav.pc = "idle"
    /\ TraverseBegin

NextBody ==
    \/ ExecuteBegin
    \/ TraverseStep
    \/ TraverseEnd
    \/ ExecuteGravity
    \/ ExecuteSetSpeed
    \/ ExecuteMoveX
    \/ ExecuteMoveY

SpecBody == InitBody /\ [][NextBody]_vars

\* ---------------------------------------------------------------------
\* SpecSys: a running application with one object registered as active and
\* subscribed to the physics system, while user code disables and enables
\* systems at any moment.
InitSys ==
    /\ activePool = addObj(objPoolInit, "o1", Label_Default)
    /\ inactivePool = objPoolInit
    /\ IsActive = [o \in Objs |-> TRUE]
    /\ registerChannel = <<>>
    /\ unregisterChannel = <<>>
    /\ submitted = MaxRequests
    /\ mutexList = MutexInit
    /\ inputBuffer = InputBufferInit
    /\ InitTransform
    /\ InitWorker
    /\ InitExecutor
    /\ InitRender
    /\ InitRunning
    /\ obj2data = {"o1"}

UserToggle ==
    \E sys \in SysNames : SystemDisable(sys) \/ SystemEnable(sys)

NextSys == PhysicsTick \/ ExecutorTask \/ UserToggle

SpecSys == InitSys /\ [][NextSys]_vars

\* ---------------------------------------------------- NewApplication
\* atomic.CompareAndSwapInt32(&v, old, new) succeeds.
CompareAndSwap_Blind(v, old) == TRUE
CompareAndSwap(v, old) == v = old

\* cfg.Parallelism as the caller gives it.
ParallelismInputs == {0, 2}

\* if cfg.Parallelism < 1 { cfg.Parallelism = 1 }
ClampParallelism(p) == IF p < 1 THEN 1 ELSE p

\* NewApplication, the guard: the compare-and-swap of
\* casList[Cas_CoreController] from Cas_False to Cas_True, or the panic.
NewApplicationCas(c) ==
    /\ ~crashed
    /\ npc[c] = "none"
    /\ IF CompareAndSwap(casList, FALSE)
       THEN /\ casList' = TRUE
            /\ npc' = [npc EXCEPT ![c] = "build"]
            /\ UNCHANGED crashed
       ELSE /\ crashed' = TRUE
            /\ npc' = [npc EXCEPT ![c] = "panicked"]
            /\ UNCHANGED casList
    /\ UNCHANGED <<status, running, sigKill, wg, mpc, kpc, waitpc, life,
                   instances, parallelism, spc>>
    /\ UNCHANGED <<poolVars, sysVars, workVars, tfVars, execVars, renderVars>>

\* NewApplication, after the guard: the parallelism is clamped, the
\* Application is built with status Initialized and returned.
NewApplicationBuild(c) ==
    /\ ~crashed
    /\ npc[c] = "build"
    /\ \E p \in ParallelismInputs : parallelism' = ClampParallelism(p)
    /\ status' = "Initialized"
    /\ running' = FALSE
    /\ sigKill' = [msgs |-> 0, closed |-> FALSE]
    /\ wg' = 0
    /\ instances' = instances + 1
    /\ npc' = [npc EXCEPT ![c] = "returned"]
    /\ mpc' = IF mpc = "none" THEN "start" ELSE mpc
    /\ UNCHANGED <<casList, kpc, waitpc, crashed, life, spc>>
    /\ UNCHANGED <<poolVars, sysVars, workVars, tfVars, execVars, renderVars>>

NewApplication ==
    \E c \in Callers : NewApplicationCas(c) \/ NewApplicationBuild(c)

\* ------------------------------------------- Start, Kill, Wait, teardown
\* sigKill = make(chan struct{}, 1)
SigKillSize == 1

\* A receive from sigKill can proceed: a buffered signal, or the channel is
\* closed.
KillReceivable(ch) == ch.msgs > 0 \/ ch.closed
Receive(ch) == [ch EXCEPT !.msgs = IF @ > 0 THEN @ - 1 ELSE @]

\* Start, up to the go statement: the status check, InitOpenGL, initFunc,
\* executor.Run and the spawn of runWorkerLoop.
StartCall ==
    /\ ~crashed
    /\ mpc = "start"
    /\ IF status = "Running"
       THEN /\ crashed' = TRUE
            /\ UNCHANGED <<mpc, wpc, life>>
       ELSE /\ mpc' = "setRunning"
            /\ wpc' = "enable"
            /\ life' = [life EXCEPT !.inits = @ + 1, !.execRuns = @ + 1,
                                    !.spawns = @ + 1]
            /\ UNCHANGED crashed
    /\ UNCHANGED <<npc, instances, parallelism, spc>>
    /\ UNCHANGED <<casList, status, running, sigKill, wg, kpc, waitpc>>
    /\ UNCHANGED <<sysIdx, rangeSeen, memObj, tick>>
    /\ UNCHANGED <<poolVars, sysVars, tfVars, execVars, renderVars>>

\* app.running = true
StartSetRunning ==
    /\ ~crashed
    /\ mpc = "setRunning"
    /\ running' = TRUE
    /\ mpc' = "setStatus"
    /\ UNCHANGED <<npc, instances, parallelism, spc>>
    /\ UNCHANGED <<casList, status, sigKill, wg, kpc, waitpc, crashed, life>>
    /\ UNCHANGED <<poolVars, sysVars, workVars, tfVars, execVars, renderVars>>

\* app.status = GameLoopStats_Running; app.executor.Run()
StartSetStatus ==
    /\ ~crashed
    /\ mpc = "setStatus"
    /\ status' = "Running"
    /\ life' = [life EXCEPT !.execRuns = @ + 1]
    /\ mpc' = "wgAdd"
    /\ UNCHANGED <<npc, instances, parallelism, spc>>
    /\ UNCHANGED <<casList, running, sigKill, wg, kpc, waitpc, crashed>>
    /\ UNCHANGED <<poolVars, sysVars, workVars, tfVars, execVars, renderVars>>

\* app.wg.Add(1), then RenderLoop is entered.
StartWgAdd ==
    /\ ~crashed
    /\ mpc = "wgAdd"
    /\ wg' = wg + 1
    /\ mpc' = "render"
    /\ UNCHANGED <<npc, instances, parallelism, spc>>
    /\ UNCHANGED <<casList, status, running, sigKill, kpc, waitpc, crashed, life>>
    /\ UNCHANGED <<poolVars, sysVars, workVars, tfVars, execVars, renderVars>>

\* RenderLoop: between two frames no kill signal is there, and doRender runs.
RenderLoopFrame ==
    /\ ~KillReceivable(sigKill)
    /\ RenderBegin

\* RenderLoop: between two frames the kill signal is received (or the
\* channel is found closed), and RenderLoop returns.
RenderLoopExit ==
    /\ ~crashed
    /\ mpc = "render"
    /\ rpc = "idle"
    /\ KillReceivable(sigKill)
    /\ sigKill' = Receive(sigKill)
    /\ mpc' = "wgDone"
    /\ UNCHANGED <<npc, instances, parallelism, spc>>
    /\ UNCHANGED <<casList, status, running, wg, kpc, waitpc, crashed, life>>
    /\ UNCHANGED <<poolVars, sysVars, workVars, tfVars, execVars, renderVars>>

\* app.wg.Done() after RenderLoop; a negative counter panics.
StartWgDone ==
    /\ ~crashed
    /\ mpc = "wgDone"
    /\ wg' = wg - 1
    /\ crashed' = (wg - 1 < 0)
    /\ mpc' = "returned"
    /\ UNCHANGED <<npc, instances, parallelism, spc>>
    /\ UNCHANGED <<casList, status, running, sigKill, kpc, waitpc, life>>
    /\ UNCHANGED <<poolVars, sysVars, workVars, tfVars, execVars, renderVars>>

\* for _, system := range name2System { system.GetSystemBase().Enable() }
EnableAll_ButPhysics(flags) == [sys \in DOMAIN flags |-> sys # NamePhysics2DSystem]
EnableAll(flags) == [sys \in DOMAIN flags |-> TRUE]

\* runWorkerLoop, before the loop: every system of name2System is enabled.
EnableSystems ==
    /\ ~crashed
    /\ wpc = "enable"
    /\ enabled' = EnableAll(enabled)
    /\ wpc' = "loop"
    /\ UNCHANGED <<systemPriorityList, sysIdx, rangeSeen, memObj, tick>>
    /\ UNCHANGED <<poolVars, tfVars, execVars, lifeVars, renderVars>>

\* case <-app.sigKill: app.workLoopExit(); return
SelectKill ==
    /\ ~crashed
    /\ wpc = "select"
    /\ KillReceivable(sigKill)
    /\ sigKill' = Receive(sigKill)
    /\ wpc' = "exit"
    /\ UNCHANGED <<npc, instances, parallelism, spc>>
    /\ UNCHANGED <<casList, status, running, wg, mpc, kpc, waitpc, crashed, life>>
    /\ UNCHANGED <<sysIdx, rangeSeen, memObj, tick>>
    /\ UNCHANGED <<poolVars, sysVars, tfVars, execVars, renderVars>>

\* workLoopExit: close(app.sigKill); closing a closed channel panics.
WorkLoopClose ==
    /\ ~crashed
    /\ wpc = "exit"
    /\ sigKill' = [sigKill EXCEPT !.closed = TRUE]
    /\ crashed' = sigKill.closed
    /\ wpc' = "closed"
    /\ UNCHANGED <<npc, instances, parallelism, spc>>
    /\ UNCHANGED <<casList, status, running, wg, mpc, kpc, waitpc, life>>
    /\ UNCHANGED <<sysIdx, rangeSeen, memObj, tick>>
    /\ UNCHANGED <<poolVars, sysVars, tfVars, execVars, renderVars>>

\* workLoopExit: app.wg.Done(); a negative counter panics.
WorkLoopDone ==
    /\ ~crashed
    /\ wpc = "closed"
    /\ wg' = wg - 1
    /\ crashed' = (wg - 1 < 0)
    /\ wpc' = "stopped"
    /\ UNCHANGED <<npc, instances, parallelism, spc>>
    /\ UNCHANGED <<casList, status, running, sigKill, mpc, kpc, waitpc, life>>
    /\ UNCHANGED <<sysIdx, rangeSeen, memObj, tick>>
    /\ UNCHANGED <<poolVars, sysVars, tfVars, execVars, renderVars>>

\* Kill: g.sigKill <- struct{}{}; the send panics on a closed channel and
\* blocks while the buffer is full.
KillSend ==
    /\ ~crashed
    /\ kpc = "none"
    /\ status = "Running"
    /\ sigKill.closed \/ sigKill.msgs < SigKillSize
    /\ IF sigKill.closed
       THEN /\ crashed' = TRUE
            /\ UNCHANGED <<sigKill, kpc>>
       ELSE /\ sigKill' = [sigKill EXCEPT !.msgs = @ + 1]
            /\ kpc' = "sent"
            /\ UNCHANGED crashed
    /\ life' = [life EXCEPT !.killCalled = TRUE]
    /\ UNCHANGED <<npc, instances, parallelism, spc>>
    /\ UNCHANGED <<casList, status, running, wg, mpc, waitpc>>
    /\ UNCHANGED <<poolVars, sysVars, workVars, tfVars, execVars, renderVars>>

\* Kill: g.running = false
KillClear ==
    /\ ~crashed
    /\ kpc = "sent"
    /\ running' = FALSE
    /\ kpc' = "done"
    /\ UNCHANGED <<npc, instances, parallelism, spc>>
    /\ UNCHANGED <<casList, status, sigKill, wg, mpc, waitpc, crashed, life>>
    /\ UNCHANGED <<poolVars, sysVars, workVars, tfVars, execVars, renderVars>>

\* Wait is called, at some moment after Start has begun.
WaitCall ==
    /\ ~crashed
    /\ waitpc = "none"
    /\ mpc # "start"
    /\ waitpc' = "waiting"
    /\ UNCHANGED <<npc, instances, parallelism, spc>>
    /\ UNCHANGED <<casList, status, running, sigKill, wg, mpc, kpc, crashed, life>>
    /\ UNCHANGED <<poolVars, sysVars, workVars, tfVars, execVars, renderVars>>

\* g.wg.Wait() returns: the counter is zero.
WaitReturn ==
    /\ ~crashed
    /\ waitpc = "waiting"
    /\ wg = 0
    /\ waitpc' = "returned"
    /\ UNCHANGED <<npc, instances, parallelism, spc>>
    /\ UNCHANGED <<casList, status, running, sigKill, wg, mpc, kpc, crashed, life>>
    /\ UNCHANGED <<poolVars, sysVars, workVars, tfVars, execVars, renderVars>>

\* ------------------------------------------------- a second Start
\* Another thread calls Start on the application after the first call has
\* begun: the status check, then InitOpenGL, initFunc, executor.Run and the
\* spawn of a second runWorkerLoop.  The second worker and the second
\* render loop's frames run the code of the first ones on the same
\* globals; life counts them.
StartAgainCall ==
    /\ ~crashed
    /\ spc = "none"
    /\ mpc \notin {"none", "start"}
    /\ IF status = "Running"
       THEN /\ crashed' = TRUE
            /\ spc' = "panicked"
            /\ UNCHANGED life
       ELSE /\ spc' = "setRunning"
            /\ life' = [life EXCEPT !.inits = @ + 1, !.execRuns = @ + 1,
                                    !.spawns = @ + 1]
            /\ UNCHANGED crashed
    /\ UNCHANGED <<casList, status, running, sigKill, wg, mpc, kpc, waitpc,
                   npc, instances, parallelism>>
    /\ UNCHANGED <<poolVars, sysVars, workVars, tfVars, execVars, renderVars>>

\* The second call: app.running = true
StartAgainSetRunning ==
    /\ ~crashed
    /\ spc = "setRunning"
    /\ running' = TRUE
    /\ spc' = "setStatus"
    /\ UNCHANGED <<casList, status, sigKill, wg, mpc, kpc, waitpc, crashed, life,
                   npc, instances, parallelism>>
    /\ UNCHANGED <<poolVars, sysVars, workVars, tfVars, execVars, renderVars>>

\* The second call: app.status = GameLoopStats_Running; app.executor.Run()
StartAgainSetStatus ==
    /\ ~crashed
    /\ spc = "setStatus"
    /\ status' = "Running"
    /\ life' = [life EXCEPT !.execRuns = @ + 1]
    /\ spc' = "wgAdd"
    /\ UNCHANGED <<casList, running, sigKill, wg, mpc, kpc, waitpc, crashed,
                   npc, instances, parallelism>>
    /\ UNCHANGED <<poolVars, sysVars, workVars, tfVars, execVars, renderVars>>

\* The second call: app.wg.Add(1), then RenderLoop is entered.
StartAgainWgAdd ==
    /\ ~crashed
    /\ spc = "wgAdd"
    /\ wg' = wg + 1
    /\ spc' = "render"
    /\ UNCHANGED <<casList, status, running, sigKill, mpc, kpc, waitpc, crashed,
                   life, npc, instances, parallelism>>
    /\ UNCHANGED <<poolVars, sysVars, workVars, tfVars, execVars, renderVars>>

\* The second call: its RenderLoop receives the kill signal and returns.
StartAgainRenderExit ==
    /\ ~crashed
    /\ spc = "render"
    /\ KillReceivable(sigKill)
    /\ sigKill' = Receive(sigKill)
    /\ spc' = "wgDone"
    /\ UNCHANGED <<casList, status, running, wg, mpc, kpc, waitpc, crashed, life,
                   npc, instances, parallelism>>
    /\ UNCHANGED <<poolVars, sysVars, workVars, tfVars, execVars, renderVars>>

\* The second call: app.wg.Done(); a negative counter panics.
StartAgainWgDone ==
    /\ ~crashed
    /\ spc = "wgDone"
    /\ wg' = wg - 1
    /\ crashed' = (wg - 1 < 0)
    /\ spc' = "returned"
    /\ UNCHANGED <<casList, status, running, sigKill, mpc, kpc, waitpc, life,
                   npc, instances, parallelism>>
    /\ UNCHANGED <<poolVars, sysVars, workVars, tfVars, execVars, renderVars>>

StartAgain ==
    \/ StartAgainCall
    \/ StartAgainSetRunning
    \/ StartAgainSetStatus
    \/ StartAgainWgAdd
    \/ StartAgainRenderExit
    \/ StartAgainWgDone

\* -------------------------------------------------- a second Kill
\* A send on a closed channel panics.
SendPanics_Never(ch) == FALSE
SendPanics(ch) == ch.closed

\* Kill is called again after the first call has returned:
\* g.sigKill <- struct{}{}
KillAgainSend ==
    /\ ~crashed
    /\ kpc = "done"
    /\ SendPanics(sigKill) \/ sigKill.msgs < SigKillSize
    /\ IF SendPanics(sigKill)
       THEN /\ crashed' = TRUE
            /\ kpc' = "panickedAgain"
            /\ UNCHANGED sigKill
       ELSE /\ sigKill' = [sigKill EXCEPT !.msgs = @ + 1]
            /\ kpc' = "sentAgain"
            /\ UNCHANGED crashed
    /\ life' = [life EXCEPT !.secondKillOnClosed = sigKill.closed]
    /\ UNCHANGED <<casList, status, running, wg, mpc, waitpc,
                   npc, instances, parallelism, spc>>
    /\ UNCHANGED <<poolVars, sysVars, workVars, tfVars, execVars, renderVars>>

\* The second Kill: g.running = false
KillAgainClear ==
    /\ ~crashed
    /\ kpc = "sentAgain"
    /\ running' = FALSE
    /\ kpc' = "doneAgain"
    /\ UNCHANGED <<casList, status, sigKill, wg, mpc, waitpc, crashed, life,
                   npc, instances, parallelism, spc>>
    /\ UNCHANGED <<poolVars, sysVars, workVars, tfVars, execVars, renderVars>>

KillAgain == KillAgainSend \/ KillAgainClear

\* ---------------------------------------------------------------------
\* SpecLife: an initialized application on which Start is called; a user
\* thread may call Kill once and another may call Wait.  No object is
\* registered.  Each thread that can take a step eventually takes one.
InitLife ==
    /\ InitPool
    /\ InitTransform
    /\ InitWorker
    /\ InitExecutor
    /\ InitRender
    /\ obj2data = {}
    /\ casList = TRUE
    /\ npc = [c \in Callers |-> IF c = "c1" THEN "returned" ELSE "none"]
    /\ instances = 1
    /\ parallelism = 1
    /\ spc = "none"
    /\ status = "Initialized"
    /\ running = FALSE
    /\ sigKill = [msgs |-> 0, closed |-> FALSE]
    /\ wg = 0
    /\ mpc = "start"
    /\ kpc = "none"
    /\ waitpc = "none"
    /\ crashed = FALSE
    /\ life = NoLife
    /\ wpc = "none"
    /\ systemPriorityList = <<NameCollision2Dsystem, NamePhysics2DSystem>>
    /\ enabled = [sys \in SysNames |-> FALSE]

MainThread ==
    \/ StartCall
    \/ StartSetRunning
    \/ StartSetStatus
    \/ StartWgAdd
    \/ RenderLoopFrame
    \/ RenderUnlock
    \/ RenderSort
    \/ RenderDone
    \/ RenderLoopExit
    \/ StartWgDone

PhysicalThread ==
    \/ EnableSystems
    \/ LoopCheck
    \/ SelectTick
    \/ SelectKill
    \/ RegisterDrained
    \/ ExecuteSystem
    \/ ExecuteReturn
    \/ SystemsDone
    \/ StepsDone
    \/ Flush
    \/ UnregisterDrained
    \/ MemDone
    \/ WorkLoopClose
    \/ WorkLoopDone

UserThreads ==
    \/ KillSend
    \/ KillClear
    \/ WaitCall
    \/ WaitReturn

NextLife == MainThread \/ PhysicalThread \/ UserThreads

SpecLife ==
    /\ InitLife
    /\ [][NextLife]_vars
    /\ WF_vars(MainThread)
    /\ WF_vars(PhysicalThread)
    /\ WF_vars(KillClear)
    /\ WF_vars(WaitReturn)

\* ---------------------------------------------------------------------
\* SpecNew: the process after GlobalInitializer; two callers may each call
\* NewApplication, at any moment, and the application that was built is
\* started, killed and waited for.
InitNew ==
    /\ InitPool
    /\ InitTransform
    /\ InitWorker
    /\ InitExecutor
    /\ InitRender
    /\ obj2data = {}
    /\ casList = FALSE
    /\ npc = [c \in Callers |-> "none"]
    /\ instances = 0
    /\ parallelism = 0
    /\ spc = "none"
    /\ status = "Created"
    /\ running = FALSE
    /\ sigKill = [msgs |-> 0, closed |-> FALSE]
    /\ wg = 0
    /\ mpc = "none"
    /\ kpc = "none"
    /\ waitpc = "none"
    /\ crashed = FALSE
    /\ life = NoLife
    /\ wpc = "none"
    /\ systemPriorityList = <<NameCollision2Dsystem, NamePhysics2DSystem>>
    /\ enabled = [sys \in SysNames |-> FALSE]

NextNew == NewApplication \/ NextLife

SpecNew == InitNew /\ [][NextNew]_vars

\* ---------------------------------------------------------------------
\* SpecRestart: the application of SpecLife on which another thread calls
\* Start a second time, at any moment after the first call has begun.
NextRestart == NextLife \/ StartAgain

SpecRestart == InitLife /\ [][NextRestart]_vars

\* ---------------------------------------------------------------------
\* SpecKillAgain: the application of SpecLife on which Kill is called a
\* second time, at any moment after the first call has returned.
NextKillAgain == NextLife \/ KillAgain

SpecKillAgain == InitLife /\ [][NextKillAgain]_vars

\* =====================================================================
\* Properties
\* =====================================================================
AllPhases == <<1, 2, 3, 4, 5, 6>>
IsPrefix(a, b) == Len(a) <= Len(b) /\ \A i \in 1..Len(a) : a[i] = b[i]
StepPhaseOver == wpc \in {"flush", "drainUnreg", "memXY", "memY"} \/ tick.done

\* C2 (as stated): after a tick the active pool holds what it held before
\* the tick, plus one object per register request drained, minus one per
\* unregister request drained.
C2_SizeCountsEveryRequest ==
    tick.done =>
        PoolSize(activePool) = tick.sizeBefore + tick.regDrained - tick.unregDrained

\* C2 (amended): after a tick the active pool holds what it held before the
\* tick, plus one per drained register request that carries isActive = true
\* for an object not yet in the active pool, minus one per drained unregister
\* request for an object that is in the active pool and whose IsActive field
\* is true when the request is drained.
C2_SizeCountsEffectiveRequests ==
    tick.done =>
        PoolSize(activePool) = tick.sizeBefore + tick.regAdded - tick.unregRemoved

\* A tick that drained an effective and an ineffective register request and
\* an effective unregister request.
C2_Witness ==
    /\ tick.done
    /\ tick.regDrained = 2
    /\ tick.regAdded = 1
    /\ tick.unregRemoved = 1

\* C3: in the step phase of a tick every object that was in the active pool
\* when the phase began is stepped exactly once and no other object is
\* stepped, whatever requests are submitted during the phase.
C3_EachActiveSteppedOnce ==
    /\ \A o \in Objs :
         /\ tick.stepped[o] <= 1
         /\ tick.stepped[o] = 1 => o \in tick.stepStart
    /\ StepPhaseOver => \A o \in tick.stepStart : tick.stepped[o] = 1

\* The step phase of a tick has ended with both objects stepped and a
\* register request, sent during the tick, waiting in the queue.
C3_Witness ==
    /\ wpc = "flush"
    /\ tick.stepStart = Objs
    /\ \A o \in Objs : tick.stepped[o] = 1
    /\ Len(registerChannel) > 0

\* C4: no object is in the active and in the inactive pool at once, and no
\* object is in more than one label bucket of a pool.
C4_OnePoolOneBucket ==
    \A o \in Objs :
        /\ ~(o \in PoolObjs(activePool) /\ o \in PoolObjs(inactivePool))
        /\ Cardinality({e \in PoolEntries(activePool) : e[2] = o}) <= 1
        /\ Cardinality({e \in PoolEntries(inactivePool) : e[2] = o}) <= 1

\* C5: an object whose unregister request was drained in this tick is, for
\* the rest of the tick, in neither the active nor the inactive pool.
C5_UnregisteredIsInNoPool ==
    \A o \in tick.unregistered :
        /\ o \notin PoolObjs(activePool)
        /\ o \notin PoolObjs(inactivePool)

\* C6: while the render thread walks the active pool under the read lock,
\* no step changes the active pool: every change of the pool is made with
\* no reader holding the lock.
C6_NoMutationDuringWalk ==
    [][activePool' # activePool => (rpc # "walk" /\ mutexList.readers = 0)]_vars

\* The render thread is in the middle of its walk while the physical
\* thread stands at the register drain with a request for the active pool.
C6_Witness ==
    /\ rpc = "walk"
    /\ mutexList.readers = 1
    /\ renderSeen # {}
    /\ wpc = "drainReg"
    /\ Len(registerChannel) > 0
    /\ Head(registerChannel).isActive

\* C10: the phases of a tick run in the order 1..6, each once; the input
\* buffer is flushed once per tick, after every step callback of the tick.
C10_PhasesInOrder ==
    /\ IsPrefix(tick.phases, AllPhases)
    /\ tick.flushes <= 1
    /\ tick.flushes = 1 => \A o \in tick.stepStart : tick.stepped[o] = 1
    /\ tick.done => tick.phases = AllPhases /\ tick.flushes = 1

\* A completed tick that drained a register and an unregister request and
\* stepped an object.
C10_Witness ==
    /\ tick.done
    /\ tick.phases = AllPhases
    /\ tick.regDrained > 0
    /\ tick.unregDrained > 0
    /\ tick.stepStart # {}

\* ---------------------------------------------------------------------
WorkerTearingDown == wpc \in {"exit", "closed", "stopped"}
WorkerTornDown == wpc \in {"closed", "stopped"}
RenderLoopExited == mpc \in {"wgDone", "returned"}

\* C7: as long as Kill has not been called, the physical loop has not left
\* its loop nor closed the kill channel, and the render loop has not exited.
C7_RunsUntilKill ==
    ~life.killCalled =>
        /\ ~sigKill.closed
        /\ ~WorkerTearingDown
        /\ ~RenderLoopExited

\* C8: once Kill has been called on a running application, the physical
\* loop eventually runs workLoopExit and the render loop eventually exits.
C8_KillStopsBothLoops ==
    life.killCalled ~> (WorkerTornDown /\ RenderLoopExited)

\* C9: when Wait has returned, the physical thread has completed
\* workLoopExit and the render loop has exited.
C9_WaitOutlastsBothLoops ==
    waitpc = "returned" => (wpc = "stopped" /\ RenderLoopExited)

\* C1: when a physical tick has ended, every object that was in the active
\* pool throughout the tick has its previous position equal to the position
\* it had at the end of the tick.
C1_PrevIsEndOfTick ==
    tick.done =>
        \A o \in tick.through :
            prevX[o] = tick.endX[o] /\ prevY[o] = tick.endY[o]

\* ---------------------------------------------------------------------
Range(seq) == {seq[i] : i \in DOMAIN seq}
SystemsPhaseOver == wpc \in {"steps", "flush", "drainUnreg", "memXY", "memY"} \/ tick.done

\* C11: the systems executed in a tick are executed in strictly ascending
\* priority; once the systems phase is over, a system that was not switched
\* during the tick was executed exactly if it was enabled when the tick
\* started, and a disabled system raises no error.
C11_EnabledSystemsInPriorityOrder ==
    /\ \A i, j \in DOMAIN tick.executed :
          i < j => Priority(tick.executed[i]) < Priority(tick.executed[j])
    /\ SystemsPhaseOver =>
          \A sys \in SysNames \ tick.toggled :
              (sys \in Range(tick.executed)) <=> tick.enabledAtStart[sys]
    /\ ~crashed

\* A completed tick that skipped the collision system, disabled before the
\* tick started, and executed the physics system.
C11_Witness ==
    /\ tick.done
    /\ tick.toggled = {}
    /\ ~tick.enabledAtStart[NameCollision2Dsystem]
    /\ tick.executed = <<NamePhysics2DSystem>>

\* ---------------------------------------------------------------------
Times(seq, x) == Cardinality({i \in DOMAIN seq : seq[i] = x})
DepthsOf(seq) == [i \in DOMAIN seq |-> spriteZ[seq[i]]]
CallbacksOver == rpc = "draw" /\ Len(renderLog) = Len(renderSortList)

\* C12: the render callbacks of a render tick run in non-increasing order
\* of Sprite.Z, and when they are over each object that was in the active
\* pool at the walk has had exactly one callback, and no other object has.
C12_DrawnOnceFarthestFirst ==
    /\ \A i, j \in DOMAIN renderLog :
          i < j => spriteZ[renderLog[i]] >= spriteZ[renderLog[j]]
    /\ CallbacksOver =>
          /\ \A e \in renderSeen : Times(renderLog, e[2]) = 1
          /\ Range(renderLog) = {e[2] : e \in renderSeen}
          /\ renderSeen = PoolEntries(activePool)

\* Three objects with the depth keys 3, 1 and 2 have been drawn, in the
\* order 3, 2, 1.
C12_Witness ==
    /\ CallbacksOver
    /\ spriteZ = [o \in DrawObjs |-> CASE o = "o1" -> 3 [] o = "o2" -> 1 [] OTHER -> 2]
    /\ DepthsOf(renderLog) = <<3, 2, 1>>
    /\ renderLog = <<"o1", "o3", "o2">>

\* ---------------------------------------------------------------------
Called(c) == npc[c] # "none"

\* C13: NewApplication returns at most one Application; once a caller has
\* passed the guard every other call panics; and the Application that was
\* built has status Initialized until it is started.
C13_SecondConstructionPanics ==
    /\ instances <= 1
    /\ \A c, d \in Callers :
          (c # d /\ npc[c] \in {"build", "returned"} /\ Called(d))
              => (npc[d] = "panicked" /\ crashed)
    /\ \A c \in Callers :
          (npc[c] = "returned" /\ mpc = "start") => status = "Initialized"

\* The first construction has returned an Application and the second call
\* has panicked.
C13_Witness ==
    \E c, d \in Callers :
        /\ npc[c] = "returned"
        /\ npc[d] = "panicked"
        /\ instances = 1
        /\ status = "Initialized"

\* C14: a second call of Start panics, and initFunc is run and a physical
\* thread is spawned once only.
C14_SecondStartPanics ==
    /\ spc # "none" => (spc = "panicked" /\ crashed)
    /\ life.inits <= 1
    /\ life.spawns <= 1

\* C15: a second Kill that sends on the channel workLoopExit has closed
\* panics: it neither blocks nor returns.
C15_SecondKillOnClosedPanics ==
    /\ life.secondKillOnClosed => (kpc = "panickedAgain" /\ crashed)
    /\ (kpc = "done" /\ sigKill.closed /\ ~crashed) => ENABLED KillAgainSend

\* The physical thread has closed the channel in workLoopExit and the
\* second Kill has panicked on it.
C15_Witness ==
    /\ WorkerTornDown
    /\ life.secondKillOnClosed
    /\ kpc = "panickedAgain"
    /\ crashed

\* ---------------------------------------------------------------------
TickStarted == wpc \in {"drainReg", "systems", "execute", "steps", "flush",
                        "drainUnreg", "memXY", "memY", "blocked"} \/ tick.done

\* C16: no step of the driver takes a system from enabled to disabled, and
\* whenever a physical tick has started every system is enabled.
C16_EnabledBeforeFirstTickAndKept ==
    /\ [][\A sys \in SysNames : enabled[sys] => enabled'[sys]]_vars
    /\ [](TickStarted => \A sys \in SysNames : enabled[sys])

\* The worker loop was started with every system disabled, and a physical
\* tick has completed and executed both systems.
C16_Witness ==
    /\ life.spawns = 1
    /\ tick.done
    /\ tick.executed = systemPriorityList
    /\ \A sys \in SysNames : enabled[sys]

\* ---------------------------------------------------------------------
ExecuteCallOver ==
    /\ tick.clean
    /\ NamePhysics2DSystem \in Range(tick.executed)
    /\ wpc # "execute"
    /\ taskQueue = <<>>
    /\ \A w \in Workers : worker[w].pc = "idle"

\* C17: when one call of Execute has returned and all its tasks have run,
\* it has submitted one task per subscribed object and execute has been
\* applied exactly once to each subscribed object.
C17_EachSubscribedIntegratedOnce ==
    ExecuteCallOver =>
        /\ tick.tasks = Cardinality(obj2data)
        /\ \A o \in obj2data : tick.integrated[o] = 1

\* C18: the physical thread is never stuck inside doPhysicalUpdate on a
\* send to a request queue that only this thread receives from.
C18_TickNeverBlocks ==
    wpc # "blocked"

\* C19: the WaitGroup counter is never negative: no more wg.Done than
\* wg.Add have been called.
C19_WaitGroupNeverNegative ==
    wg >= 0

\* C20: when one invocation of execute has ended its loop over the speed
\* list, every vector that was in the list at entry has been visited
\* exactly once.
C20_EveryVectorVisitedOnce ==
    trav.pc = "done" =>
        \A i \in DOMAIN trav.entry : trav.visits[trav.entry[i].id] = 1

\* C21: for an object whose PolygonCollider is nil, execute does not panic,
\* and when it has returned it has set the horizontal and vertical speed
\* and the Transform position is the one it was entered with.
C21_NilColliderSetsSpeedKeepsPosition ==
    ~body.collider =>
        /\ body.pc # "panicked"
        /\ (body.pc = "returned" /\ trav.pc = "idle") =>
              /\ body.set
              /\ body.hspeed = trav.dx /\ body.vspeed = trav.dy
              /\ X[Body] = body.x0 /\ Y[Body] = body.y0

====
